---- MODULE Spec2Model ----
(***************************************************************************)
(* Model of xtask/src/build_ebpf.rs: the eBPF build orchestration.         *)
(*                                                                         *)
(* A process parses command-line options (Options, clap), calls            *)
(* build_ebpf, which optionally runs the Rust builder (cargo +nightly      *)
(* build), installs the libbpf headers (make install_headers) and then     *)
(* compiles every `.c` entry of the source directory with clang.  Every    *)
(* external process is a step of the model; its exit status and captured   *)
(* output are chosen nondeterministically.  A panic (unwrap, expect,       *)
(* assert!, panic!) ends the process: pc = "aborted".                      *)
(***************************************************************************)
EXTENDS Integers, Sequences, FiniteSets, TLC

VARIABLES
    pc,             \* position of the process in build_ebpf
    opts,           \* the Options record of the current call
    targetArg,      \* the --target string the options were parsed from
    files,          \* the entries of bpfd-ebpf/src/bpf, in read_dir order
    env,            \* [CLANG, ARCH]: environment override and host architecture
    idx,            \* position of the `for file in files` loop
    locals,         \* [dir, src, out_path]: the paths built from WORKSPACE_ROOT
    trace,          \* external invocations of the current call, in order
    result,         \* value build_ebpf returned to its caller
    wsRoot,         \* the lazy_static WORKSPACE_ROOT cell
    metadataCalls,  \* number of `cargo metadata` spawned by this process
    rootReads,      \* number of reads of WORKSPACE_ROOT by this process
    rootVals,       \* the values those reads returned
    disk,           \* [dirs, headers, objects]: what the build left on disk
    calls,          \* number of build_ebpf calls that have returned
    prev            \* options and invocations of the previous returned call

vars == <<pc, opts, targetArg, files, env, idx, locals, trace, result, wsRoot,
          metadataCalls, rootReads, rootVals, disk, calls, prev>>

----------------------------------------------------------------------------
(* Bounds of the model. *)

MaxFiles == 3       \* entries in the source directory
MaxCalls == 2       \* build_ebpf calls in one process

----------------------------------------------------------------------------
(* Architecture: FromStr and Display (lines 13-38). *)

Architecture == {"BpfEl", "BpfEb"}

Ok(v)  == [ok |-> TRUE, val |-> v]
Err(e) == [ok |-> FALSE, val |-> e]

from_str(s) ==
    CASE s = "bpfel-unknown-none" -> Ok("BpfEl")
      [] s = "bpfeb-unknown-none" -> Ok("BpfEb")
      [] OTHER -> Err("invalid target")

\* Display with the two arms given the same string.
DisplayOneString(a) ==
    CASE a = "BpfEl" -> "bpfel-unknown-none"
      [] a = "BpfEb" -> "bpfel-unknown-none"

Display(a) ==
    CASE a = "BpfEl" -> "bpfel-unknown-none"
      [] a = "BpfEb" -> "bpfeb-unknown-none"

\* Strings a user may give as --target: the two canonical ones, and others.
TargetStrings ==
    {"bpfel-unknown-none", "bpfeb-unknown-none", "bpf", "BPFEL-UNKNOWN-NONE"}

----------------------------------------------------------------------------
(* File names, as sequences of characters, and std::path's extension rules. *)

Names ==
    { <<"a", ".", "c">>,            \* a.c
      <<"a", ".", "b", ".", "c">>,  \* a.b.c
      <<"a", ".", "h">>,            \* a.h
      <<".", "c">> }                \* .c   (hidden file: no extension)

\* Index of the last '.' of a name, 0 when it has none.
LastDot(name) ==
    LET dots == {i \in 1..Len(name) : name[i] = "."}
    IN  IF dots = {} THEN 0 ELSE CHOOSE i \in dots : \A j \in dots : j <= i

\* Path::extension: the part after the last '.', None when the name has no
\* '.' or only a leading one.
Extension(name) ==
    IF LastDot(name) <= 1
    THEN [some |-> FALSE, val |-> <<>>]
    ELSE [some |-> TRUE, val |-> SubSeq(name, LastDot(name) + 1, Len(name))]

\* Path::file_stem: the part before the last '.', the whole name when it has
\* no extension.
FileStem(name) ==
    IF LastDot(name) <= 1 THEN name ELSE SubSeq(name, 1, LastDot(name) - 1)

\* PathBuf::set_extension(ext) on a file name.
SetExtension(name, ext) == FileStem(name) \o <<".">> \o ext

\* The test made on the name's last two characters instead of its extension.
IsCSourceBySuffix(name) ==
    Len(name) >= 2 /\ name[Len(name) - 1] = "." /\ name[Len(name)] = "c"

\* The test of the loop, lines 127-128: `if let Some(ext) ... if ext == "c"`.
IsCSource(name) == Extension(name).some /\ Extension(name).val = <<"c">>

\* Lines 129-131: the object's file name.
OutName(name) == SetExtension(name, <<"o">>)

----------------------------------------------------------------------------
(* Paths: a directory is a sequence of components; a file adds a name. *)

SrcDir(root)  == <<root, "bpfd-ebpf", "src", "bpf">>
RustDir(root) == <<root, "bpfd-ebpf">>
OutPath(root, target) == <<root, "target", Display(target), "release">>
IncludePath(outPath)  == outPath \o <<"include">>

Arg(flag, dir, name) == [flag |-> flag, dir |-> dir, name |-> name]
Flag(f) == Arg(f, <<>>, <<>>)

\* Lines 81-90.
RustTarget(target) == "--target=" \o Display(target)

RustArgs(target) ==
    << Flag("+nightly"), Flag("build"), Flag("--verbose"), Flag("--release"),
       Flag(RustTarget(target)), Flag("-Z"), Flag("build-std=core") >>

\* Lines 103-106.
MakeArgs(includePath) ==
    << Arg("INCLUDEDIR=", includePath, <<>>), Flag("install_headers") >>

\* Lines 145-148.
ClangProgram(e) == IF e.CLANG = "unset" THEN "/usr/bin/clang" ELSE e.CLANG

\* Lines 149-153.
ArchMacro(arch) ==
    CASE arch = "x86_64"  -> "x86"
      [] arch = "aarch64" -> "arm64"
      [] OTHER -> arch

\* The compiler given the selected triple as its target.
ClangTargetTriple(target) == Display(target)

\* The compiler's target machine, lines 158-159.
ClangTarget(target) == "bpf"

\* Lines 154-164.
ClangArgs(target, e, dir, name, outPath) ==
    << Arg("-I", IncludePath(outPath), <<>>), Flag("-g"), Flag("-O2"),
       Flag("-target"), Flag(ClangTarget(target)), Flag("-c"),
       Flag("-D__TARGET_ARCH_" \o ArchMacro(e.ARCH)),
       Arg("", dir, name), Flag("-o"), Arg("", outPath, OutName(name)) >>

----------------------------------------------------------------------------
(* Captured process output: bytes, and String::from_utf8 (lines 65, 174-175). *)

IsCont(b) == 128 <= b /\ b <= 191

RECURSIVE IsUtf8(_)
IsUtf8(b) ==
    IF b = <<>> THEN TRUE
    ELSE IF b[1] < 128 THEN IsUtf8(Tail(b))
    ELSE IF 194 <= b[1] /\ b[1] <= 223
         THEN Len(b) >= 2 /\ IsCont(b[2]) /\ IsUtf8(SubSeq(b, 3, Len(b)))
    ELSE IF 224 <= b[1] /\ b[1] <= 239
         THEN /\ Len(b) >= 3 /\ IsCont(b[2]) /\ IsCont(b[3])
              /\ (b[1] = 224 => b[2] >= 160)
              /\ (b[1] = 237 => b[2] <= 159)
              /\ IsUtf8(SubSeq(b, 4, Len(b)))
    ELSE IF 240 <= b[1] /\ b[1] <= 244
         THEN /\ Len(b) >= 4 /\ IsCont(b[2]) /\ IsCont(b[3]) /\ IsCont(b[4])
              /\ (b[1] = 240 => b[2] >= 144)
              /\ (b[1] = 244 => b[2] <= 143)
              /\ IsUtf8(SubSeq(b, 5, Len(b)))
    ELSE FALSE

\* Outputs of a failing compiler, [stdout, stderr]: "e" is <<101>>, "é" is
\* <<195, 169>>, and <<255>> is a byte that no UTF-8 text holds.
FailureOutputs ==
    { [stdout |-> <<>>, stderr |-> <<101>>],
      [stdout |-> <<101>>, stderr |-> <<195, 169>>],
      [stdout |-> <<101>>, stderr |-> <<255>>],
      [stdout |-> <<195>>, stderr |-> <<101>>] }

----------------------------------------------------------------------------
(* Inputs and outcomes of the environment. *)

Roots      == {"/ws", "/ws2"}       \* what `cargo metadata` may report
LibbpfDirs == { <<"libbpf">> }
Releases   == {TRUE}                \* Options.release: no function reads it
Envs ==
    { [CLANG |-> "unset", ARCH |-> "x86_64"],
      [CLANG |-> "clang-15", ARCH |-> "riscv64"] }

\* Directory listings: distinct names, in any order (read_dir gives no order).
Listings ==
    { s \in UNION { [1..n -> Names] : n \in 0..MaxFiles } :
        \A i, j \in DOMAIN s : i # j => s[i] # s[j] }

MetadataOutcomes ==
    {"ok", "nonzero", "spawn_fail", "bad_utf8", "bad_json", "no_root_field"}
StatusOutcomes == {"ok", "nonzero", "spawn_fail"}
MkdirOutcomes  == {"ok", "io_error"}
ClangOutcomes ==
    { [status |-> "ok", stdout |-> <<>>, stderr |-> <<>>],
      [status |-> "spawn_fail", stdout |-> <<>>, stderr |-> <<>>] }
    \cup { [status |-> "nonzero", stdout |-> f.stdout, stderr |-> f.stderr] :
             f \in FailureOutputs }

Event(kind, prog, cwd, args, status, out, err) ==
    [kind |-> kind, prog |-> prog, cwd |-> cwd, args |-> args,
     status |-> status, stdout |-> out, stderr |-> err]

NoResult == [kind |-> "none", msg |-> "", stdout |-> <<>>, stderr |-> <<>>]
OkResult == [kind |-> "ok", msg |-> "", stdout |-> <<>>, stderr |-> <<>>]
ErrResult(msg, out, err) ==
    [kind |-> "err", msg |-> msg, stdout |-> out, stderr |-> err]

NoLocals == [dir |-> <<>>, src |-> <<>>, out_path |-> <<>>]
NoOpts ==
    [target |-> "BpfEl", release |-> FALSE, compile_rust_ebpf |-> FALSE,
     libbpf_dir |-> <<>>]
NoPrev == [valid |-> FALSE, opts |-> NoOpts, trace |-> <<>>]

Init ==
    /\ pc = "idle"
    /\ opts = NoOpts
    /\ targetArg = ""
    /\ files \in Listings
    /\ env \in Envs
    /\ idx = 0
    /\ locals = NoLocals
    /\ trace = <<>>
    /\ result = NoResult
    /\ wsRoot = [init |-> FALSE, val |-> ""]
    /\ metadataCalls = 0
    /\ rootReads = 0
    /\ rootVals = {}
    /\ disk = [dirs |-> {}, headers |-> {}, objects |-> {}]
    /\ calls = 0
    /\ prev = NoPrev

----------------------------------------------------------------------------
(* Options::parse (lines 40-54): --target goes through Architecture::from_str. *)

ParseOptions ==
    /\ pc = "idle"
    /\ \E s \in TargetStrings, rel \in Releases, rust \in BOOLEAN, lib \in LibbpfDirs :
        /\ targetArg' = s
        /\ IF from_str(s).ok
           THEN /\ opts' = [target |-> from_str(s).val, release |-> rel,
                            compile_rust_ebpf |-> rust, libbpf_dir |-> lib]
                /\ pc' = "parsed"
           ELSE /\ opts' = opts
                /\ pc' = "cli_error"
    /\ UNCHANGED <<files, env, idx, locals, trace, result, wsRoot, metadataCalls,
                   rootReads, rootVals, disk, calls, prev>>

(* build_ebpf (lines 70-75): the Rust builder first when the flag is set. *)

\* The flag not consulted.
FirstStageAlwaysRust(o) == "rust_root"

FirstStage(o) == IF o.compile_rust_ebpf THEN "rust_root" ELSE "c_root_src"

BuildEbpf ==
    /\ pc = "parsed"
    /\ pc' = FirstStage(opts)
    /\ UNCHANGED <<opts, targetArg, files, env, idx, locals, trace, result, wsRoot,
                   metadataCalls, rootReads, rootVals, disk, calls, prev>>

(* WORKSPACE_ROOT (lines 56-68): a lazy_static cell, read at lines 78, 114, 117. *)

AtRootRead == pc \in {"rust_root", "c_root_src", "c_root_out"}

\* A cell that never keeps its value.
NeverInitialised(cell) == FALSE

\* Whether a read finds the cell initialised.
Initialised(cell) == cell.init

\* What a read that returned `root` does next (lines 78-79, 114-115, 117-120).
UseRoot(root) ==
    /\ rootReads' = rootReads + 1
    /\ rootVals' = rootVals \cup {root}
    /\ CASE pc = "rust_root" ->
              /\ locals' = [locals EXCEPT !.dir = RustDir(root)]
              /\ pc' = "rust_build"
         [] pc = "c_root_src" ->
              /\ locals' = [locals EXCEPT !.src = SrcDir(root)]
              /\ pc' = "c_root_out"
         [] pc = "c_root_out" ->
              /\ locals' = [locals EXCEPT !.out_path = OutPath(root, opts.target)]
              /\ pc' = "headers"

\* First read: workspace_root() runs `cargo metadata` and panics on any failure.
WorkspaceRootInit ==
    /\ AtRootRead
    /\ ~Initialised(wsRoot)
    /\ \E outcome \in MetadataOutcomes, root \in Roots :
        /\ metadataCalls' = metadataCalls + 1
        /\ trace' = Append(trace, Event("metadata", "cargo", <<>>, <<Flag("metadata")>>,
                                        outcome, <<>>, <<>>))
        /\ IF outcome = "ok"
           THEN /\ wsRoot' = [init |-> TRUE, val |-> root]
                /\ UseRoot(root)
           ELSE /\ pc' = "aborted"
                /\ UNCHANGED <<wsRoot, rootReads, rootVals, locals>>
    /\ UNCHANGED <<opts, targetArg, files, env, idx, result, disk, calls, prev>>

\* Later reads: the cached value.
WorkspaceRootCached ==
    /\ AtRootRead
    /\ Initialised(wsRoot)
    /\ UseRoot(wsRoot.val)
    /\ UNCHANGED <<opts, targetArg, files, env, idx, trace, result, wsRoot,
                   metadataCalls, disk, calls, prev>>

(* build_rust_ebpf (lines 77-98): expect + assert!, so any failure is a panic. *)

\* The exit status of the Rust build not asserted.
AfterRustBuildUnchecked(status) == "c_root_src"

AfterRustBuild(status) == IF status = "ok" THEN "c_root_src" ELSE "aborted"

BuildRustEbpf ==
    /\ pc = "rust_build"
    /\ \E status \in StatusOutcomes :
        /\ trace' = Append(trace, Event("rust_build", "cargo", locals.dir,
                                        RustArgs(opts.target), status, <<>>, <<>>))
        /\ pc' = AfterRustBuild(status)
    /\ UNCHANGED <<opts, targetArg, files, env, idx, locals, result, wsRoot,
                   metadataCalls, rootReads, rootVals, disk, calls, prev>>

(* get_libbpf_headers (lines 100-111), called at line 123. *)

\* create_dir_all(dir).unwrap() in place of `?`.
AfterMkdirUnwrap(outcome) == IF outcome = "ok" THEN "make" ELSE "aborted"

\* The exit status of make not asserted.
AfterMakeUnchecked(status) == "loop"

\* create_dir_all(dir)?  : an io error is returned to the caller.
AfterMkdir(outcome) == IF outcome = "ok" THEN "make" ELSE "returned"

\* expect + assert!(status.success()) : any failure of make is a panic.
AfterMake(status) == IF status = "ok" THEN "loop" ELSE "aborted"

GetLibbpfHeaders ==
    /\ pc = "headers"
    /\ LET inc == IncludePath(locals.out_path)
           mkdirEv(o) == Event("create_dir_all", "fs", <<>>,
                               <<Arg("", inc, <<>>)>>, o, <<>>, <<>>)
           makeEv(s) == Event("install_headers", "make", opts.libbpf_dir \o <<"src">>,
                              MakeArgs(inc), s, <<>>, <<>>)
       IN \E mk \in MkdirOutcomes, status \in StatusOutcomes :
            IF AfterMkdir(mk) # "make"
            THEN /\ trace' = Append(trace, mkdirEv(mk))
                 /\ pc' = AfterMkdir(mk)
                 /\ result' = IF pc' = "returned"
                              THEN ErrResult("create_dir_all", <<>>, <<>>)
                              ELSE result
                 /\ UNCHANGED <<disk, idx>>
            ELSE /\ trace' = trace \o <<mkdirEv(mk), makeEv(status)>>
                 /\ pc' = AfterMake(status)
                 /\ result' = result
                 /\ disk' = [disk EXCEPT
                               !.dirs = @ \cup (IF mk = "ok" THEN {inc} ELSE {}),
                               !.headers = @ \cup (IF status = "ok" THEN {inc} ELSE {})]
                 /\ idx' = IF pc' = "loop" THEN 1 ELSE idx
    /\ UNCHANGED <<opts, targetArg, files, env, locals, wsRoot, metadataCalls,
                   rootReads, rootVals, calls, prev>>

(* build_c_ebpf's loop (lines 124-136) and compile_with_clang (lines 140-180). *)

\* The compiler's exit status not looked at.
CompileResultUnchecked(o) == "next"

\* What one compiler run leads to: the next entry, a returned error, a panic.
CompileResult(o) ==
    CASE o.status = "ok" -> "next"
      [] o.status = "spawn_fail" -> "err_exec"
      [] OTHER -> IF IsUtf8(o.stdout) /\ IsUtf8(o.stderr)
                  THEN "err_compile" ELSE "panic"

SkipEntry ==
    /\ pc = "loop"
    /\ idx <= Len(files)
    /\ ~IsCSource(files[idx])
    /\ idx' = idx + 1
    /\ UNCHANGED <<pc, opts, targetArg, files, env, locals, trace, result, wsRoot,
                   metadataCalls, rootReads, rootVals, disk, calls, prev>>

CompileWithClang ==
    /\ pc = "loop"
    /\ idx <= Len(files)
    /\ IsCSource(files[idx])
    /\ \E o \in ClangOutcomes :
        LET name == files[idx]
            out  == Arg("", locals.out_path, OutName(name))
            r    == CompileResult(o)
        IN  /\ trace' = Append(trace,
                  Event("clang", ClangProgram(env), <<>>,
                        ClangArgs(opts.target, env, locals.src, name, locals.out_path),
                        o.status, o.stdout, o.stderr))
            /\ disk' = [disk EXCEPT
                          !.objects = @ \cup (IF o.status = "ok" THEN {out} ELSE {})]
            /\ CASE r = "next" ->
                      idx' = idx + 1 /\ pc' = pc /\ result' = result
                 [] r = "err_exec" ->
                      /\ idx' = idx /\ pc' = "returned"
                      /\ result' = ErrResult("Failed to execute clang", <<>>, <<>>)
                 [] r = "err_compile" ->
                      /\ idx' = idx /\ pc' = "returned"
                      /\ result' = ErrResult("Failed to compile eBPF programs",
                                             o.stdout, o.stderr)
                 [] OTHER ->
                      idx' = idx /\ pc' = "aborted" /\ result' = result
    /\ UNCHANGED <<opts, targetArg, files, env, locals, wsRoot, metadataCalls,
                   rootReads, rootVals, calls, prev>>

\* Line 136: Ok(()) once every entry has been handled.
LoopEnd ==
    /\ pc = "loop"
    /\ idx > Len(files)
    /\ pc' = "returned"
    /\ result' = OkResult
    /\ UNCHANGED <<opts, targetArg, files, env, idx, locals, trace, wsRoot,
                   metadataCalls, rootReads, rootVals, disk, calls, prev>>

(* build_ebpf is a `pub fn`: after a build that succeeded the process may   *)
(* build again, for instance for the other target; after an error it stops. *)

CallAgain ==
    /\ pc = "returned"
    /\ result.kind = "ok"
    /\ calls + 1 < MaxCalls
    /\ calls' = calls + 1
    /\ prev' = [valid |-> TRUE, opts |-> opts, trace |-> trace]
    /\ pc' = "idle"
    /\ idx' = 0
    /\ locals' = NoLocals
    /\ trace' = <<>>
    /\ result' = NoResult
    /\ UNCHANGED <<opts, targetArg, files, env, wsRoot, metadataCalls, rootReads,
                   rootVals, disk>>

Next ==
    \/ ParseOptions
    \/ BuildEbpf
    \/ WorkspaceRootInit
    \/ WorkspaceRootCached
    \/ BuildRustEbpf
    \/ GetLibbpfHeaders
    \/ SkipEntry
    \/ CompileWithClang
    \/ LoopEnd
    \/ CallAgain

Spec == Init /\ [][Next]_vars

----------------------------------------------------------------------------
(* Vocabulary of the properties. *)

\* The names of the directory whose extension is exactly `c`.
ExtensionIsC == { <<"a", ".", "c">>, <<"a", ".", "b", ".", "c">> }

CFiles == SelectSeq(files, LAMBDA n : n \in ExtensionIsC)
ClangEvents == SelectSeq(trace, LAMBDA e : e.kind = "clang")
KindAt(k) == {i \in DOMAIN trace : trace[i].kind = k}
CanonicalTargets == {"bpfel-unknown-none", "bpfeb-unknown-none"}

\* Positions in the argument list of clang.
SrcArg == 8
OutArg == 10
ClangTargetArg == 5
IncludeArg == 1

----------------------------------------------------------------------------
(* C1: if make install_headers does not succeed, the call ends in a panic   *)
(* and no clang invocation follows it, however many .c files there are.     *)
C1_NoCompileAfterHeaderFailure ==
    \A i \in KindAt("install_headers") :
        trace[i].status # "ok" =>
            /\ pc = "aborted"
            /\ \A j \in KindAt("clang") : j < i

C1_Witness ==
    /\ \E i \in KindAt("install_headers") : trace[i].status = "nonzero"
    /\ Len(CFiles) >= 2

(* C2: without compile_rust_ebpf the Rust builder is never invoked, every   *)
(* clang invocation follows a successful header install, and a call that    *)
(* returns Ok has installed the headers and compiled every .c source.       *)
C2_NoRustBuilderWithoutFlag ==
    ~opts.compile_rust_ebpf =>
        /\ KindAt("rust_build") = {}
        /\ pc \notin {"rust_root", "rust_build"}
        /\ \A j \in KindAt("clang") :
              \E i \in KindAt("install_headers") : i < j /\ trace[i].status = "ok"
        /\ (pc = "returned" /\ result.kind = "ok") =>
              /\ KindAt("install_headers") # {}
              /\ Len(ClangEvents) = Len(CFiles)

C2_Witness ==
    /\ ~opts.compile_rust_ebpf
    /\ pc = "returned" /\ result.kind = "ok"
    /\ KindAt("install_headers") # {}
    /\ Len(ClangEvents) >= 2

(* C3: the clang invocations are one per entry whose extension is `c`, in   *)
(* directory order, each writing <name with extension o> in the output      *)
(* directory; a call that returns Ok has made exactly N of them; entries    *)
(* with another extension, or none, get no invocation and no object.        *)
C3_OneInvocationPerCSource ==
    /\ Len(ClangEvents) <= Len(CFiles)
    /\ \A i \in 1..Len(ClangEvents) :
        LET src == ClangEvents[i].args[SrcArg]
            out == ClangEvents[i].args[OutArg]
            n   == Len(src.name)
        IN  /\ src.name = CFiles[i]
            /\ src.dir = locals.src
            /\ out.dir = locals.out_path
            /\ Len(out.name) = n
            /\ SubSeq(out.name, 1, n - 1) = SubSeq(src.name, 1, n - 1)
            /\ out.name[n] = "o"
    /\ (pc = "returned" /\ result.kind = "ok") => Len(ClangEvents) = Len(CFiles)
    /\ \A obj \in disk.objects :
        /\ obj.name[Len(obj.name)] = "o"
        /\ \E k \in DOMAIN files :
              /\ files[k] \in ExtensionIsC
              /\ files[k] = SubSeq(obj.name, 1, Len(obj.name) - 1) \o <<"c">>

C3_Witness ==
    /\ pc = "returned" /\ result.kind = "ok"
    /\ Len(CFiles) = 2
    /\ Len(files) = 3
    /\ Len(ClangEvents) = 2
    /\ Cardinality(disk.objects) = 2

(* C4: cargo metadata is spawned at most once by the process, by the first  *)
(* read of WORKSPACE_ROOT; every read returns the value that spawn gave.    *)
C4_MetadataQueriedOnce ==
    /\ metadataCalls <= 1
    /\ rootReads >= 1 =>
        /\ metadataCalls = 1
        /\ wsRoot.init
        /\ rootVals = {wsRoot.val}
    /\ Cardinality(KindAt("metadata")) <= 1

C4_Witness ==
    /\ rootReads >= 5
    /\ calls >= 1
    /\ metadataCalls = 1

(* C5: a clang invocation that exits non-zero never ends in a process       *)
(* abort: the call returns an error that carries the captured stdout and    *)
(* stderr.                                                                  *)
C5_ClangFailureIsReturned ==
    \A i \in KindAt("clang") :
        trace[i].status = "nonzero" =>
            /\ pc = "returned"
            /\ result.kind = "err"
            /\ result.stdout = trace[i].stdout
            /\ result.stderr = trace[i].stderr

(* C6, as stated: a failure of create_dir_all and a non-zero exit of make   *)
(* install_headers both end in a process abort, no error being returned.    *)
C6_HeaderFailuresAbort ==
    \A i \in DOMAIN trace :
        \/ trace[i].kind = "create_dir_all" /\ trace[i].status # "ok"
        \/ trace[i].kind = "install_headers" /\ trace[i].status = "nonzero"
        => pc = "aborted" /\ result.kind = "none"

(* C6, amended: a non-zero exit of make install_headers (or a failure to    *)
(* spawn make) ends in a process abort; a failure of create_dir_all is      *)
(* returned to the caller as an error, make not having been run.  In both   *)
(* cases no clang invocation is made.                                       *)
C6_MakeFailureAbortsMkdirFailureReturns ==
    /\ \A i \in KindAt("install_headers") :
          trace[i].status # "ok" =>
              pc = "aborted" /\ result.kind = "none" /\ KindAt("clang") = {}
    /\ \A i \in KindAt("create_dir_all") :
          trace[i].status # "ok" =>
              /\ pc = "returned"
              /\ result.kind = "err"
              /\ KindAt("install_headers") = {}
              /\ KindAt("clang") = {}

C6_Witness ==
    /\ \E i \in KindAt("create_dir_all") : trace[i].status = "io_error"
    /\ pc = "returned"
    /\ Len(CFiles) >= 1

(* C7: with compile_rust_ebpf the Rust build precedes the header install    *)
(* and every clang invocation; if it does not succeed the process aborts,   *)
(* nothing is returned, and neither make nor clang is run.                  *)
C7_RustBuildFirstAndFatal ==
    opts.compile_rust_ebpf =>
        /\ \A j \in DOMAIN trace :
              trace[j].kind \in {"create_dir_all", "install_headers", "clang"} =>
                  \E i \in KindAt("rust_build") : i < j /\ trace[i].status = "ok"
        /\ \A i \in KindAt("rust_build") :
              trace[i].status # "ok" =>
                  /\ pc = "aborted"
                  /\ result.kind = "none"
                  /\ i = Len(trace)

C7_Witness ==
    /\ opts.compile_rust_ebpf
    /\ \E i \in KindAt("rust_build") : trace[i].status = "nonzero"
    /\ Len(CFiles) >= 1

(* C8: two calls of one process that differ only in Options.target.         *)
DifferOnlyInTarget ==
    /\ prev.valid
    /\ prev.opts.target # opts.target
    /\ prev.opts.release = opts.release
    /\ prev.opts.compile_rust_ebpf = opts.compile_rust_ebpf
    /\ prev.opts.libbpf_dir = opts.libbpf_dir

\* An argument with the target triple taken out of its path.
WithoutTriple(arg) ==
    [arg EXCEPT !.dir = [k \in DOMAIN arg.dir |->
                           IF arg.dir[k] \in CanonicalTargets THEN "<triple>"
                           ELSE arg.dir[k]]]

\* Events of the two calls that are the same step: the header install, or
\* the compilation of the same source file.
SameStep(e, f) ==
    /\ e.kind = f.kind
    /\ e.kind \in {"install_headers", "clang"}
    /\ e.kind = "clang" => e.args[SrcArg] = f.args[SrcArg]

(* C8, as stated: for two runs that differ only in target, the header       *)
(* install and every clang invocation have the same arguments.              *)
C8_SameArgumentsForBothTargets ==
    DifferOnlyInTarget =>
        \A i \in DOMAIN trace, j \in DOMAIN prev.trace :
            SameStep(trace[i], prev.trace[j]) => trace[i].args = prev.trace[j].args

(* C8, amended: the compiler's -target is always bpf and the Rust builder   *)
(* gets --target=<triple>; the target also names the output directory       *)
(* target/<triple>/release, so for two runs that differ only in target the  *)
(* INCLUDEDIR of make and the -I and -o paths of each clang invocation      *)
(* differ in that one path component and all other arguments are the same.  *)
C8_TargetOnlyInTripleAndOutputPaths ==
    /\ \A i \in KindAt("clang") : trace[i].args[ClangTargetArg] = Flag("bpf")
    /\ \A i \in KindAt("rust_build") :
          \E k \in DOMAIN trace[i].args :
              trace[i].args[k] = Flag("--target=" \o targetArg)
    /\ DifferOnlyInTarget =>
        \A i \in DOMAIN trace, j \in DOMAIN prev.trace :
            SameStep(trace[i], prev.trace[j]) =>
                LET a == trace[i].args
                    b == prev.trace[j].args
                    paths == IF trace[i].kind = "clang"
                             THEN {IncludeArg, OutArg} ELSE {IncludeArg}
                IN  /\ trace[i].prog = prev.trace[j].prog
                    /\ trace[i].cwd = prev.trace[j].cwd
                    /\ Len(a) = Len(b)
                    /\ \A k \in DOMAIN a :
                          IF k \in paths
                          THEN /\ a[k] # b[k]
                               /\ WithoutTriple(a[k]) = WithoutTriple(b[k])
                               /\ \E c \in DOMAIN a[k].dir : a[k].dir[c] = targetArg
                          ELSE a[k] = b[k]

C8_Witness ==
    /\ DifferOnlyInTarget
    /\ \E i \in DOMAIN trace, j \in DOMAIN prev.trace :
          trace[i].kind = "clang" /\ SameStep(trace[i], prev.trace[j])
    /\ KindAt("install_headers") # {}

(* C9: parsing a canonical target string and formatting the result gives    *)
(* the string back, and formatting an Architecture and parsing the result   *)
(* gives the same value: the triple handed to cargo and used in the output  *)
(* path is the --target string the options were parsed from.                *)
C9_TargetRoundTrip ==
    /\ \A a \in Architecture : from_str(Display(a)) = Ok(a)
    /\ \A t \in CanonicalTargets : from_str(t).ok /\ Display(from_str(t).val) = t
    /\ pc = "cli_error" => targetArg \notin CanonicalTargets
    /\ pc \notin {"idle", "cli_error"} =>
        /\ targetArg \in CanonicalTargets
        /\ Display(opts.target) = targetArg
        /\ \A i \in KindAt("rust_build") :
              trace[i].args[5] = Flag("--target=" \o targetArg)
        /\ locals.out_path # <<>> => locals.out_path[3] = targetArg

C9_Witness ==
    /\ targetArg = "bpfeb-unknown-none"
    /\ KindAt("rust_build") # {}
    /\ locals.out_path # <<>>

(* C10: the loop handles the entries one after another; an entry that is    *)
(* not a .c source is skipped and the loop goes on; the first clang failure *)
(* ends the loop, so no later entry is compiled; the objects written by the *)
(* invocations that succeeded before it stay on disk.                       *)
C10_SequentialEarlyAbortNoRollback ==
    /\ pc = "loop" =>
        Len(ClangEvents) = Cardinality({k \in 1..(idx - 1) : files[k] \in ExtensionIsC})
    /\ \A i \in 1..Len(ClangEvents) : ClangEvents[i].args[SrcArg].name = CFiles[i]
    /\ \A i \in KindAt("clang") :
        /\ trace[i].status # "ok" =>
              /\ i = Len(trace)
              /\ pc \in {"returned", "aborted"}
              /\ result.kind # "ok"
        /\ trace[i].status = "ok" => trace[i].args[OutArg] \in disk.objects

C10_Witness ==
    /\ Len(files) = 3
    /\ files[1] \notin ExtensionIsC
    /\ Len(ClangEvents) = 2
    /\ ClangEvents[1].status = "ok"
    /\ ClangEvents[2].status = "nonzero"
    /\ pc = "returned"
    /\ ClangEvents[1].args[OutArg] \in disk.objects

====
